---- MODULE Spec2Model ----
(***************************************************************************)
(* Model of netlify/functions/proxy_go.ts: the edge function that proxies  *)
(* requests to the Google Generative Language API.                         *)
(*                                                                         *)
(* One invocation of the default handler is modelled: the inbound request  *)
(* and the behaviour of the upstream server are drawn in Init, the handler *)
(* runs from its entry to one of its return statements (or to a thrown     *)
(* error), and the body relay started by pipeTo keeps running afterwards.  *)
(*                                                                         *)
(* Text is modelled by tokens: a path is a sequence of the tokens "/" and  *)
(* letters, a header value is a sequence of the values that the Headers    *)
(* class joins with ", ", and a body is a sequence of chunks.              *)
(***************************************************************************)
EXTENDS Integers, Sequences, FiniteSets, TLC

VARIABLES
    request,      \* the inbound Request: method, url (pathname, query), headers, body
    upstream,     \* what the upstream server does with the call: reachable, status, headers, body
    pc,           \* position of the handler: "start", "fetch", a return statement, or "thrown"
    fetchCalls,   \* the calls of fetch() made so far, each the outbound request
    response,     \* the Response the handler returned (NoResponse before that)
    upSent,       \* number of chunks the upstream body has produced so far
    upQueue,      \* chunks queued in googleResponse.body, not yet read by the pipe
    upState,      \* googleResponse.body: "none", "open", "closed", "errored"
    wQueue,       \* chunks written to `writable`, waiting for the transform
    backpressure, \* the TransformStream's backpressure flag
    readPending,  \* the client has a read() of `readable` outstanding
    outState,     \* `readable`: "none", "open", "closed", "errored"
    clientRead,   \* chunks the client has read from the outbound body
    clientEnd     \* how the client saw the body end: "reading", "eof", "error"

vars == <<request, upstream, pc, fetchCalls, response, upSent, upQueue, upState,
          wQueue, backpressure, readPending, outState, clientRead, clientEnd>>

streamVars == <<upSent, upQueue, upState, wQueue, backpressure, readPending,
                outState, clientRead, clientEnd>>

-----------------------------------------------------------------------------
(* Bounds of the model *)

MaxHeaders == 3       \* inbound request headers

MaxParams == 3        \* inbound query parameters

MaxPathLen == 3       \* tokens of the inbound pathname

MaxRespHeaders == 3   \* upstream response headers

MaxChunks == 4        \* chunks of the upstream body

-----------------------------------------------------------------------------
(* Sequences *)

SeqsUpTo(S, n) == UNION {[1..k -> S] : k \in 0..n}

RECURSIVE Flatten(_)
Flatten(ss) == IF ss = <<>> THEN <<>> ELSE Head(ss) \o Flatten(Tail(ss))

IsPrefix(s, t) == Len(s) <= Len(t) /\ SubSeq(t, 1, Len(s)) = s

FirstIndex(s, P(_)) == CHOOSE i \in 1..Len(s) : P(s[i]) /\ \A j \in 1..(i-1) : ~P(s[j])

-----------------------------------------------------------------------------
(* The Headers class: a list of (name, value) entries whose names compare   *)
(* case-insensitively.  A value is the sequence of the field values that    *)
(* get() joins with ", ".                                                   *)

Null == <<>>

ToLower(name) ==
    CASE name = "Content-Type" -> "content-type"
      [] name = "Authorization" -> "authorization"
      [] name = "X-Goog-Api-Key" -> "x-goog-api-key"
      [] name = "Cookie" -> "cookie"
      [] name = "Content-Length" -> "content-length"
      [] name = "Alt-Svc" -> "alt-svc"
      [] name = "X-Custom" -> "x-custom"
      [] name = "Access-Control-Allow-Origin" -> "access-control-allow-origin"
      [] OTHER -> name

\* every lower-case header name of the model, in the order Headers iterates them
SortedNames ==
    << "access-control-allow-headers", "access-control-allow-methods",
       "access-control-allow-origin", "alt-svc", "authorization",
       "content-encoding", "content-length", "content-type", "cookie",
       "user-agent", "x-custom", "x-goog-api-client", "x-goog-api-key" >>

Header(n, v) == [name |-> n, value |-> v]

HeadersHas(headers, name) ==
    \E i \in 1..Len(headers) : ToLower(headers[i].name) = ToLower(name)

\* Headers.get: the values of every entry of that name, joined in list order
HeadersGet(headers, name) ==
    LET named(e) == ToLower(e.name) = ToLower(name)
        hits == SelectSeq(headers, named)
    IN  IF hits = <<>> THEN Null
        ELSE Flatten([i \in 1..Len(hits) |-> hits[i].value])

\* Headers.append
HeadersAppend(headers, name, value) == Append(headers, Header(name, value))

\* Headers.delete: removes every entry of that name
HeadersDelete(headers, name) ==
    LET other(e) == ToLower(e.name) # ToLower(name)
    IN  SelectSeq(headers, other)

\* Headers.set: the first entry of that name takes the value and the others
\* are removed; without such an entry the header is appended
HeadersSet(headers, name, value) ==
    IF HeadersHas(headers, name)
    THEN LET named(e) == ToLower(e.name) = ToLower(name)
             first == FirstIndex(headers, named)
             keep(i) == i = first \/ ~named(headers[i])
             kept == SelectSeq([i \in 1..Len(headers) |-> i], keep)
         IN  [k \in 1..Len(kept) |->
                 IF kept[k] = first THEN Header(headers[first].name, value)
                 ELSE headers[kept[k]]]
    ELSE HeadersAppend(headers, name, value)

\* Headers.keys(): lower-cased names, sorted, one per name
HeadersKeys(headers) ==
    LET present(n) == HeadersHas(headers, n)
    IN  SelectSeq(SortedNames, present)

\* iterating a Headers object: one (lower-case name, joined value) pair per name
HeadersEntries(headers) ==
    LET ks == HeadersKeys(headers)
    IN  [i \in 1..Len(ks) |-> Header(ks[i], HeadersGet(headers, ks[i]))]

\* new Headers(init) for a list of pairs or a record: append each in order
RECURSIVE HeadersFill(_, _)
HeadersFill(headers, init) ==
    IF init = <<>> THEN headers
    ELSE HeadersFill(HeadersAppend(headers, Head(init).name, Head(init).value), Tail(init))

\* new Headers(h) for a Headers object h
HeadersCopy(headers) == HeadersFill(<<>>, HeadersEntries(headers))

-----------------------------------------------------------------------------
(* pickHeaders *)

RECURSIVE pickLoop(_, _, _, _)
pickLoop(ks, headers, keys, picked) ==
    IF ks = <<>> THEN picked
    ELSE LET key == Head(ks)
             value == HeadersGet(headers, key)
         IN  IF (\E i \in 1..Len(keys) : keys[i] = key) /\ value # Null
             THEN pickLoop(Tail(ks), headers, keys, HeadersSet(picked, key, value))
             ELSE pickLoop(Tail(ks), headers, keys, picked)

pickHeaders_all(headers, keys) == HeadersEntries(headers)

pickHeaders(headers, keys) == pickLoop(HeadersKeys(headers), headers, keys, <<>>)

\* the allow-list the handler passes to pickHeaders
ForwardedKeys == << "content-type", "x-goog-api-client", "x-goog-api-key", "authorization" >>

forwardedHeaders(req) == pickHeaders(req.headers, ForwardedKeys)

CORS_HEADERS ==
    << Header("access-control-allow-origin", <<"*">>),
       Header("access-control-allow-methods", <<"GET, POST, PUT, DELETE, OPTIONS">>),
       Header("access-control-allow-headers",
              <<"Content-Type, Authorization, x-goog-api-key, x-goog-api-client">>) >>

-----------------------------------------------------------------------------
(* URLs.  A pathname is a sequence of tokens, "/" or a letter; a host is a   *)
(* sequence of tokens too.  A query is a sequence of (name, value) pairs in  *)
(* their percent-encoded form; URLSearchParams holds them decoded.           *)

UpstreamHost == << "generativelanguage.googleapis.com" >>

\* application/x-www-form-urlencoded decoding of one name or value
Decode(raw) ==
    CASE raw = "%5Fpath" -> "_path"
      [] raw = "a+b" -> "a b"
      [] raw = "a%20b" -> "a b"
      [] OTHER -> raw

\* application/x-www-form-urlencoded serialising of one name or value
Encode(text) ==
    CASE text = "a b" -> "a+b"
      [] OTHER -> text

Pair(n, v) == [name |-> n, value |-> v]

\* url.searchParams: the query parsed into decoded pairs
searchParams(query) ==
    [i \in 1..Len(query) |-> Pair(Decode(query[i].name), Decode(query[i].value))]

\* the query that URLSearchParams.append leaves in the URL for these pairs
Serialize(params) ==
    [i \in 1..Len(params) |-> Pair(Encode(params[i].name), Encode(params[i].value))]

RECURSIVE SkipSlashes(_)
SkipSlashes(s) == IF s # <<>> /\ Head(s) = "/" THEN SkipSlashes(Tail(s)) ELSE s

RECURSIVE UpToSlash(_)
UpToSlash(s) == IF s = <<>> \/ Head(s) = "/" THEN <<>> ELSE <<Head(s)>> \o UpToSlash(Tail(s))

FailedUrl == [ok |-> FALSE, scheme |-> "", host |-> <<>>, path |-> <<>>, query |-> <<>>]

\* new URL(pathname, "https://generativelanguage.googleapis.com"): a pathname
\* that starts with "//" is a scheme-relative reference, whose first segment is
\* parsed as the host (an empty host is a TypeError); any other pathname
\* replaces the path of the base
ParseRelative(pathname, baseHost) ==
    IF Len(pathname) >= 2 /\ pathname[1] = "/" /\ pathname[2] = "/"
    THEN LET rest == SkipSlashes(pathname)
             host == UpToSlash(rest)
             tail == SubSeq(rest, Len(host) + 1, Len(rest))
         IN  IF host = <<>> THEN FailedUrl
             ELSE [ok |-> TRUE, scheme |-> "https", host |-> host,
                   path |-> IF tail = <<>> THEN <<"/">> ELSE tail, query |-> <<>>]
    ELSE [ok |-> TRUE, scheme |-> "https", host |-> baseHost,
          path |-> pathname, query |-> <<>>]

\* the searchParams.forEach loop: every pair not named "_path" is appended
ForwardedParams(params) ==
    LET wanted(p) == p.name # "_path"
    IN  SelectSeq(params, wanted)

targetUrl(url) ==
    LET base == ParseRelative(url.pathname, UpstreamHost)
    IN  IF base.ok
        THEN [base EXCEPT !.query = Serialize(ForwardedParams(searchParams(url.query)))]
        ELSE base

-----------------------------------------------------------------------------
(* Responses *)

NoBody == [kind |-> "null", text |-> <<>>]

NoResponse == [status |-> 0, statusText |-> "", headers |-> <<>>, body |-> NoBody]

Title == "Google PaLM/Gemini API Proxy on Netlify Edge"

blank_html ==
    << "<!DOCTYPE html>", "<html>", "<head>", "<meta charset=UTF-8>",
       "<title>", Title, "</title>", "</head>", "<body>",
       "<h1>", Title, "</h1>",
       "<p>This is a proxy for the Google Generative Language API, deployed on Netlify Edge Functions.</p>",
       "<p>For technical details, please visit ...</p>",
       "</body>", "</html>" >>

\* new Response(null, {status: 204, headers: CORS_HEADERS})
PreflightResponse ==
    [status |-> 204, statusText |-> "", headers |-> HeadersFill(<<>>, CORS_HEADERS),
     body |-> NoBody]

\* new Response(blank_html, {headers: {...CORS_HEADERS, "content-type": ...}})
RootResponse ==
    [status |-> 200, statusText |-> "",
     headers |-> HeadersFill(<<>>, CORS_HEADERS \o
                     << Header("content-type", <<"text/html;charset=UTF-8">>) >>),
     body |-> [kind |-> "text", text |-> blank_html]]

RECURSIVE SetAll(_, _)
SetAll(headers, entries) ==
    IF entries = <<>> THEN headers
    ELSE SetAll(HeadersSet(headers, Head(entries).name, Head(entries).value), Tail(entries))

RemovedHeaders == << "content-encoding", "content-length", "alt-svc" >>

RECURSIVE DeleteAll(_, _)
DeleteAll(headers, names) ==
    IF names = <<>> THEN headers
    ELSE DeleteAll(HeadersDelete(headers, Head(names)), Tail(names))

responseHeaders_append(up) ==
    DeleteAll(HeadersFill(HeadersCopy(up.headers), CORS_HEADERS), RemovedHeaders)

responseHeaders_keepLength(up) ==
    DeleteAll(SetAll(HeadersCopy(up.headers), CORS_HEADERS), <<"content-encoding", "alt-svc">>)

\* the copy of the upstream headers with the CORS headers set and the three
\* transport headers deleted
responseHeaders(up) ==
    DeleteAll(SetAll(HeadersCopy(up.headers), CORS_HEADERS), RemovedHeaders)

RelayedResponse_ok(up, body) ==
    [status |-> 200, statusText |-> "OK",
     headers |-> HeadersCopy(responseHeaders(up)), body |-> body]

\* new Response(body, {headers: responseHeaders, status, statusText})
RelayedResponse(up, body) ==
    [status |-> up.status, statusText |-> up.statusText,
     headers |-> HeadersCopy(responseHeaders(up)), body |-> body]

\* the init object handed to fetch()
OutboundRequest(req) ==
    [url |-> targetUrl(req.url), method |-> req.method,
     headers |-> forwardedHeaders(req), hasBody |-> req.hasBody]

-----------------------------------------------------------------------------
(* The inputs of one invocation *)

Methods == {"OPTIONS", "GET", "POST", "HEAD"}

\* a request has a body only with a method that allows one
RequestShapes ==
    {[method |-> m, hasBody |-> b] : m \in Methods, b \in BOOLEAN} \
    {[method |-> m, hasBody |-> TRUE] : m \in {"OPTIONS", "GET", "HEAD"}}

DefaultShapes == {[method |-> "OPTIONS", hasBody |-> FALSE], [method |-> "GET", hasBody |-> FALSE]}

PathTokens == {"/", "a"}

\* the pathname of a parsed http(s) URL always starts with "/"
Pathnames == {p \in SeqsUpTo(PathTokens, MaxPathLen) : p # <<>> /\ p[1] = "/"}

DefaultPathnames == { <<"/">>, <<"/", "a">>, <<"/", "/">> }

QueryChoices ==
    { Pair("foo", "1"), Pair("foo", "a%20b"), Pair("bar", "a+b"),
      Pair("_path", "internal"), Pair("%5Fpath", "x") }

RequestHeaderChoices ==
    { Header("Content-Type", <<"application/json">>),
      Header("x-goog-api-key", <<"k1">>),
      Header("X-Goog-Api-Key", <<"k2">>),
      Header("Authorization", <<"Bearer t">>),
      Header("x-goog-api-client", <<"genai-js">>),
      Header("cookie", <<"sid=1">>),
      Header("user-agent", <<"curl">>) }

DefaultRequestHeaders ==
    << Header("Content-Type", <<"application/json">>), Header("cookie", <<"sid=1">>) >>

ResponseHeaderChoices ==
    { Header("content-encoding", <<"gzip">>),
      Header("Content-Length", <<"123">>),
      Header("alt-svc", <<"h3=:443">>),
      Header("x-custom", <<"keep">>),
      Header("X-Custom", <<"more">>),
      Header("Access-Control-Allow-Origin", <<"https://example.com">>),
      Header("access-control-allow-headers", <<"none">>) }

DefaultResponseHeaders ==
    << Header("Content-Length", <<"123">>), Header("x-custom", <<"keep">>) >>

Statuses ==
    { <<200, "OK">>, <<200, "">>, <<204, "No Content">>, <<404, "Not Found">>,
      <<500, "Internal Server Error">> }

\* fetch gives these statuses a null body
NullBodyStatus == {101, 103, 204, 205, 304}

Chunks == {"c1", "c2"}

Request(shape, pathname, query, headers) ==
    [method |-> shape.method, hasBody |-> shape.hasBody,
     url |-> [pathname |-> pathname, query |-> query], headers |-> headers]

Unreachable ==
    [reachable |-> FALSE, status |-> 0, statusText |-> "", headers |-> <<>>,
     hasBody |-> FALSE, chunks |-> <<>>]

Reply(st, headers, hasBody, chunks) ==
    [reachable |-> TRUE, status |-> st[1], statusText |-> st[2], headers |-> headers,
     hasBody |-> hasBody, chunks |-> chunks]

DefaultUpstreams ==
    { Unreachable,
      Reply(<<204, "No Content">>, DefaultResponseHeaders, FALSE, <<>>),
      Reply(<<200, "OK">>, DefaultResponseHeaders, TRUE, <<"c1", "c2">>) }

\* the body of the response fetch resolves with is null for a HEAD request and
\* for a null-body status
FetchAllows(req, up) ==
    (up.reachable /\ (req.method = "HEAD" \/ up.status \in NullBodyStatus)) => ~up.hasBody

Start ==
    /\ pc = "start"
    /\ fetchCalls = <<>>
    /\ response = NoResponse
    /\ upSent = 0
    /\ upQueue = <<>>
    /\ upState = "none"
    /\ wQueue = <<>>
    /\ backpressure = TRUE
    /\ readPending = FALSE
    /\ outState = "none"
    /\ clientRead = <<>>
    /\ clientEnd = "reading"

\* any request headers, a default URL and upstream
InitHeaders ==
    /\ request \in {Request(s, p, <<>>, h) : s \in DefaultShapes, p \in DefaultPathnames,
                                             h \in SeqsUpTo(RequestHeaderChoices, MaxHeaders)}
    /\ upstream \in DefaultUpstreams
    /\ Start

\* any method, pathname and query, default headers and upstream
InitUrl ==
    /\ request \in {Request(s, p, q, DefaultRequestHeaders) :
                        s \in RequestShapes, p \in Pathnames,
                        q \in SeqsUpTo(QueryChoices, MaxParams)}
    /\ upstream \in DefaultUpstreams
    /\ FetchAllows(request, upstream)
    /\ Start

\* any upstream status and headers, a default request
InitReply ==
    /\ request \in {Request(s, p, <<>>, DefaultRequestHeaders) :
                        s \in DefaultShapes, p \in DefaultPathnames}
    /\ upstream \in {Unreachable} \cup
                    {Reply(st, h, b, IF b THEN <<"c1">> ELSE <<>>) :
                        st \in Statuses, b \in BOOLEAN,
                        h \in SeqsUpTo(ResponseHeaderChoices, MaxRespHeaders)}
    /\ FetchAllows(request, upstream)
    /\ Start

\* any upstream body, a default request
InitStream ==
    /\ request \in {Request(s, p, <<>>, DefaultRequestHeaders) :
                        s \in DefaultShapes, p \in DefaultPathnames}
    /\ upstream \in {Unreachable} \cup
                    {Reply(st, DefaultResponseHeaders, b, c) :
                        st \in {<<200, "OK">>, <<204, "No Content">>}, b \in BOOLEAN,
                        c \in SeqsUpTo(Chunks, MaxChunks)}
    /\ ~upstream.hasBody => upstream.chunks = <<>>
    /\ FetchAllows(request, upstream)
    /\ Start

-----------------------------------------------------------------------------
(* The handler *)

Returned == {"preflight", "root", "nobody", "streamed"}

Terminal == Returned \cup {"thrown"}

Return(site, resp) ==
    /\ pc' = site
    /\ response' = resp
    /\ UNCHANGED <<request, upstream, fetchCalls>>

Throw ==
    /\ pc' = "thrown"
    /\ UNCHANGED <<request, upstream, fetchCalls, response>>

\* lines 39-44: the OPTIONS preflight
Preflight ==
    /\ pc = "start"
    /\ request.method = "OPTIONS"
    /\ Return("preflight", PreflightResponse)
    /\ UNCHANGED streamVars

RootDocument_first ==
    /\ pc = "start"
    /\ request.url.pathname = <<"/">>
    /\ Return("root", RootResponse)
    /\ UNCHANGED streamVars

\* lines 46-70: the static page of the root path
RootDocument ==
    /\ pc = "start"
    /\ request.method # "OPTIONS"
    /\ request.url.pathname = <<"/">>
    /\ Return("root", RootResponse)
    /\ UNCHANGED streamVars

\* line 73: new URL(pathname, base) throws a TypeError
TargetUrlThrows ==
    /\ pc = "start"
    /\ request.method # "OPTIONS"
    /\ request.url.pathname # <<"/">>
    /\ ~targetUrl(request.url).ok
    /\ Throw
    /\ UNCHANGED streamVars

\* lines 73-96: the URL and headers are built and fetch is called
CallFetch ==
    /\ pc = "start"
    /\ request.method # "OPTIONS"
    /\ request.url.pathname # <<"/">>
    /\ targetUrl(request.url).ok
    /\ fetchCalls' = Append(fetchCalls, OutboundRequest(request))
    /\ pc' = "fetch"
    /\ UNCHANGED <<request, upstream, response>>
    /\ UNCHANGED streamVars

FetchRejects_retry ==
    /\ pc = "fetch"
    /\ ~upstream.reachable
    /\ IF Len(fetchCalls) < 2
       THEN /\ fetchCalls' = Append(fetchCalls, OutboundRequest(request))
            /\ UNCHANGED <<request, upstream, response, pc>>
       ELSE Throw
    /\ UNCHANGED streamVars

\* line 92: the awaited fetch rejects and the handler's promise rejects with it
FetchRejects ==
    /\ pc = "fetch"
    /\ ~upstream.reachable
    /\ Throw
    /\ UNCHANGED streamVars

\* lines 101-121: the upstream response has no body
ReturnNoBody ==
    /\ pc = "fetch"
    /\ upstream.reachable
    /\ ~upstream.hasBody
    /\ Return("nobody", RelayedResponse(upstream, NoBody))
    /\ UNCHANGED streamVars

\* lines 101-112, 125-133: the pipe is started and the readable end returned
ReturnStream ==
    /\ pc = "fetch"
    /\ upstream.reachable
    /\ upstream.hasBody
    /\ Return("streamed", RelayedResponse(upstream, [kind |-> "stream", text |-> <<>>]))
    /\ upState' = "open"
    /\ outState' = "open"
    /\ UNCHANGED <<upSent, upQueue, wQueue, backpressure, readPending, clientRead, clientEnd>>

-----------------------------------------------------------------------------
(* The body relay: googleResponse.body.pipeTo(writable), and the client     *)
(* reading `readable`.  The TransformStream is the identity transform with  *)
(* its default strategies: the writable side holds WritableHWM chunk, the   *)
(* readable side none, so a chunk is transformed only when a read waits.    *)

WritableHWM == 1

handlerVars == <<request, upstream, pc, fetchCalls, response>>

\* the upstream server delivers the next chunk of the body
UpstreamChunk ==
    /\ upState = "open"
    /\ upSent < Len(upstream.chunks)
    /\ upSent' = upSent + 1
    /\ upQueue' = Append(upQueue, upstream.chunks[upSent + 1])
    /\ UNCHANGED <<upState, wQueue, backpressure, readPending, outState, clientRead, clientEnd>>
    /\ UNCHANGED handlerVars

\* the upstream body ends
UpstreamClose ==
    /\ upState = "open"
    /\ upSent = Len(upstream.chunks)
    /\ upState' = "closed"
    /\ UNCHANGED <<upSent, upQueue, wQueue, backpressure, readPending, outState, clientRead, clientEnd>>
    /\ UNCHANGED handlerVars

\* the upstream body fails (connection reset): the stream is errored and its
\* queue is dropped
UpstreamError ==
    /\ upState = "open"
    /\ upState' = "errored"
    /\ upQueue' = <<>>
    /\ UNCHANGED <<upSent, wQueue, backpressure, readPending, outState, clientRead, clientEnd>>
    /\ UNCHANGED handlerVars

\* pipeTo reads a chunk from the source and writes it to `writable` when the
\* writer wants more
PipeWrite ==
    /\ outState = "open"
    /\ upQueue # <<>>
    /\ Len(wQueue) < WritableHWM
    /\ wQueue' = Append(wQueue, Head(upQueue))
    /\ upQueue' = Tail(upQueue)
    /\ UNCHANGED <<upSent, upState, backpressure, readPending, outState, clientRead, clientEnd>>
    /\ UNCHANGED handlerVars

\* the client calls read() on the outbound body: the readable side pulls,
\* which lifts the backpressure
ClientRead ==
    /\ outState = "open"
    /\ clientEnd = "reading"
    /\ ~readPending
    /\ readPending' = TRUE
    /\ backpressure' = FALSE
    /\ UNCHANGED <<upSent, upQueue, upState, wQueue, outState, clientRead, clientEnd>>
    /\ UNCHANGED handlerVars

Transform_drop ==
    /\ outState = "open"
    /\ wQueue # <<>>
    /\ ~backpressure
    /\ wQueue' = Tail(wQueue)
    /\ IF Len(clientRead) = 1
       THEN UNCHANGED <<clientRead, readPending, backpressure>>
       ELSE /\ clientRead' = Append(clientRead, Head(wQueue))
            /\ readPending' = FALSE
            /\ backpressure' = TRUE
    /\ UNCHANGED <<upSent, upQueue, upState, outState, clientEnd>>
    /\ UNCHANGED handlerVars

\* the identity transform enqueues the written chunk, which fulfils the
\* waiting read; with no read waiting the backpressure is back
Transform ==
    /\ outState = "open"
    /\ wQueue # <<>>
    /\ ~backpressure
    /\ wQueue' = Tail(wQueue)
    /\ clientRead' = Append(clientRead, Head(wQueue))
    /\ readPending' = FALSE
    /\ backpressure' = TRUE
    /\ UNCHANGED <<upSent, upQueue, upState, outState, clientEnd>>
    /\ UNCHANGED handlerVars

\* pipeTo sees the source closed: once every chunk it read has been written,
\* it closes `writable`, which closes `readable`
PipeClose ==
    /\ outState = "open"
    /\ upState = "closed"
    /\ upQueue = <<>>
    /\ wQueue = <<>>
    /\ outState' = "closed"
    /\ UNCHANGED <<upSent, upQueue, upState, wQueue, backpressure, readPending, clientRead, clientEnd>>
    /\ UNCHANGED handlerVars

PipeAbort_close ==
    /\ outState = "open"
    /\ upState = "errored"
    /\ wQueue = <<>>
    /\ outState' = "closed"
    /\ UNCHANGED <<upSent, upQueue, upState, wQueue, backpressure, readPending, clientRead, clientEnd>>
    /\ UNCHANGED handlerVars

\* pipeTo sees the source errored: once every chunk it read has been written,
\* it aborts `writable`, which errors `readable`
PipeAbort ==
    /\ outState = "open"
    /\ upState = "errored"
    /\ wQueue = <<>>
    /\ outState' = "errored"
    /\ UNCHANGED <<upSent, upQueue, upState, wQueue, backpressure, readPending, clientRead, clientEnd>>
    /\ UNCHANGED handlerVars

\* the client's read() resolves with done
ClientSeesClose ==
    /\ outState = "closed"
    /\ clientEnd = "reading"
    /\ clientEnd' = "eof"
    /\ readPending' = FALSE
    /\ UNCHANGED <<upSent, upQueue, upState, wQueue, backpressure, outState, clientRead>>
    /\ UNCHANGED handlerVars

\* the client's read() rejects
ClientSeesError ==
    /\ outState = "errored"
    /\ clientEnd = "reading"
    /\ clientEnd' = "error"
    /\ readPending' = FALSE
    /\ UNCHANGED <<upSent, upQueue, upState, wQueue, backpressure, outState, clientRead>>
    /\ UNCHANGED handlerVars

Next ==
    \/ Preflight
    \/ RootDocument
    \/ TargetUrlThrows
    \/ CallFetch
    \/ FetchRejects
    \/ ReturnNoBody
    \/ ReturnStream
    \/ UpstreamChunk
    \/ UpstreamClose
    \/ UpstreamError
    \/ PipeWrite
    \/ ClientRead
    \/ Transform
    \/ PipeClose
    \/ PipeAbort
    \/ ClientSeesClose
    \/ ClientSeesError

SpecHeaders == InitHeaders /\ [][Next]_vars

SpecUrl == InitUrl /\ [][Next]_vars

SpecReply == InitReply /\ [][Next]_vars

SpecStream == InitStream /\ [][Next]_vars

\* the runtime runs the pipe's steps and the client keeps reading; nothing
\* obliges the upstream server to send, end or fail
Relay ==
    /\ WF_vars(PipeWrite)
    /\ WF_vars(Transform)
    /\ WF_vars(ClientRead)
    /\ WF_vars(PipeClose)
    /\ WF_vars(PipeAbort)
    /\ WF_vars(ClientSeesClose)
    /\ WF_vars(ClientSeesError)

FairSpecStream == InitStream /\ [][Next]_vars /\ Relay

-----------------------------------------------------------------------------
(* Properties *)

Range(s) == {s[i] : i \in 1..Len(s)}

\* the entries of a header list whose name is n, compared case-insensitively
Named(headers, n) ==
    LET named(e) == ToLower(e.name) = n
    IN  SelectSeq(headers, named)

\* their values, joined in list order
Joined(headers, n) ==
    LET hits == Named(headers, n)
    IN  Flatten([i \in 1..Len(hits) |-> hits[i].value])

AllowList == {"content-type", "x-goog-api-client", "x-goog-api-key", "authorization"}

Relayed == {"nobody", "streamed"}

\* C1: the headers of every upstream call are exactly the inbound headers whose
\* lower-cased name is on the allow-list: each such name appears exactly once,
\* in lower case, with the inbound value (the values of repeated inbound
\* headers of one name joined in order), and no other header is sent.
C1_OnlyAllowListForwarded ==
    \A c \in 1..Len(fetchCalls) :
        LET out == fetchCalls[c].headers IN
        /\ \A i \in 1..Len(out) : out[i].name \in AllowList
        /\ \A n \in Range(SortedNames) :
              IF n \in AllowList /\ Named(request.headers, n) # <<>>
              THEN /\ Len(Named(out, n)) = 1
                   /\ Named(out, n)[1].value = Joined(request.headers, n)
              ELSE Named(out, n) = <<>>

C1_Witness ==
    /\ Len(fetchCalls) = 1
    /\ Named(request.headers, "authorization") # <<>>
    /\ Named(request.headers, "cookie") # <<>>
    /\ Len(fetchCalls[1].headers) = 1

\* C2: every upstream call goes to https://generativelanguage.googleapis.com
\* with the inbound path unchanged and with the inbound query pairs in their
\* order, those named "_path" removed.
C2_TargetUrl ==
    \A c \in 1..Len(fetchCalls) :
        LET url == fetchCalls[c].url
            inbound == searchParams(request.url.query)
            kept == {i \in 1..Len(inbound) : inbound[i].name # "_path"}
            out == searchParams(url.query)
        IN  /\ url.scheme = "https"
            /\ url.host = UpstreamHost
            /\ url.path = request.url.pathname
            /\ Len(out) = Cardinality(kept)
            /\ \A i \in kept :
                  out[Cardinality({j \in kept : j <= i})] = inbound[i]

\* the part of C2 about the query, which the code satisfies
C2_QueryKept ==
    \A c \in 1..Len(fetchCalls) :
        LET inbound == searchParams(request.url.query)
            kept == {i \in 1..Len(inbound) : inbound[i].name # "_path"}
            out == searchParams(fetchCalls[c].url.query)
        IN  /\ Len(out) = Cardinality(kept)
            /\ \A i \in kept :
                  out[Cardinality({j \in kept : j <= i})] = inbound[i]

\* the CORS headers are present once each with their exact values
HasCors(headers) ==
    /\ Len(Named(headers, "access-control-allow-origin")) = 1
    /\ Named(headers, "access-control-allow-origin")[1].value = <<"*">>
    /\ Len(Named(headers, "access-control-allow-methods")) = 1
    /\ Named(headers, "access-control-allow-methods")[1].value
          = <<"GET, POST, PUT, DELETE, OPTIONS">>
    /\ Len(Named(headers, "access-control-allow-headers")) = 1
    /\ Named(headers, "access-control-allow-headers")[1].value
          = <<"Content-Type, Authorization, x-goog-api-key, x-goog-api-client">>

\* C3: every response the handler returns, on any of the four outcomes,
\* carries the three CORS headers exactly once each with their fixed values,
\* whatever the upstream response set for those names.
C3_CorsOnEveryResponse ==
    pc \in Returned => HasCors(response.headers)

C3_Witness ==
    /\ pc = "streamed"
    /\ Named(upstream.headers, "access-control-allow-origin") # <<>>
    /\ Named(upstream.headers, "access-control-allow-headers") # <<>>

\* the outcome the priority order assigns to the request
Expected ==
    IF request.method = "OPTIONS" THEN "preflight"
    ELSE IF request.url.pathname = <<"/">> THEN "root"
    ELSE IF ~upstream.hasBody THEN "nobody"
    ELSE "streamed"

PreflightRule ==
    request.method = "OPTIONS" =>
        /\ fetchCalls = <<>>
        /\ pc \in Terminal =>
              /\ pc = "preflight"
              /\ response.status = 204
              /\ response.body.kind = "null"

\* C4 as claimed: every request ends in one of the four outcomes, chosen in
\* the priority order preflight, root, no upstream body, streamed; an OPTIONS
\* request gets the 204 response without a body and without an upstream call.
C4_FourOutcomes ==
    /\ pc \in Terminal => pc = Expected
    /\ PreflightRule

\* C4 amended: every request for which the handler returns a response ends in
\* the outcome the priority order assigns to it; an OPTIONS request gets the
\* 204 response without a body and without an upstream call.
C4_FourOutcomesWhenReturned ==
    /\ pc \in Returned => pc = Expected
    /\ pc \in Terminal => (pc \in Returned <=> response # NoResponse)
    /\ PreflightRule

C4_Witness ==
    /\ pc = "preflight"
    /\ request.url.pathname = <<"/">>
    /\ response.status = 204

\* C5: the headers of a relayed response are the upstream headers without
\* content-encoding, content-length and alt-svc and with the CORS headers
\* set: every other upstream header keeps its value.
C5_RelayedHeaders ==
    pc \in Relayed =>
        \A n \in Range(SortedNames) :
            IF n \in Range(RemovedHeaders)
            THEN Named(response.headers, n) = <<>>
            ELSE IF n \in {CORS_HEADERS[i].name : i \in 1..Len(CORS_HEADERS)}
            THEN Len(Named(response.headers, n)) = 1
            ELSE /\ Len(Named(response.headers, n)) <= 1
                 /\ Joined(response.headers, n) = Joined(upstream.headers, n)

C5_Witness ==
    /\ pc \in Relayed
    /\ Named(upstream.headers, "content-length") # <<>>
    /\ Named(upstream.headers, "x-custom") # <<>>
    /\ Joined(response.headers, "x-custom") = <<"keep">>

C6_InOrder ==
    /\ upState # "none" => IsPrefix(clientRead, SubSeq(upstream.chunks, 1, upSent))
    /\ outState = "closed" => upState = "closed" /\ clientRead = upstream.chunks
    /\ clientEnd = "eof" => outState = "closed"

\* C6: the client reads the upstream chunks in their order, none dropped,
\* repeated or altered; the outbound body closes only after the upstream body
\* closed and every chunk was read; and a chunk that has arrived from upstream
\* is read by the client (unless the upstream body fails) whether or not the
\* upstream sends anything more.
C6_LivePassThrough ==
    /\ []C6_InOrder
    /\ \A k \in 1..MaxChunks :
          (upSent >= k) ~> (Len(clientRead) >= k \/ upState = "errored")

C6_Witness ==
    /\ upState = "open"
    /\ upSent < Len(upstream.chunks)
    /\ Len(clientRead) = 2
    /\ clientRead[1] # clientRead[2]

\* C7: a relayed response has the upstream status and status text, and has
\* no body exactly when the upstream response had none.
C7_StatusPassedThrough ==
    pc \in Relayed =>
        /\ response.status = upstream.status
        /\ response.statusText = upstream.statusText
        /\ ~upstream.hasBody => response.body.kind = "null"
        /\ upstream.hasBody => response.body.kind = "stream"

C7_Witness ==
    /\ pc = "nobody"
    /\ upstream.status = 404
    /\ response.status = 404
    /\ response.statusText = "Not Found"

\* C8: fetch is called at most once per request; when that call fails the
\* invocation ends with the error thrown and no response; an invocation ends
\* either with a full response or with an error.
C8_SingleAttempt ==
    /\ Len(fetchCalls) <= 1
    /\ (Len(fetchCalls) = 1 /\ ~upstream.reachable /\ pc # "fetch") =>
          pc = "thrown" /\ response = NoResponse
    /\ pc = "thrown" => response = NoResponse
    /\ pc \in Returned => response.status >= 200 /\ HasCors(response.headers)

C8_Witness ==
    /\ pc = "thrown"
    /\ Len(fetchCalls) = 1
    /\ ~upstream.reachable

\* C9: a request to "/" with a method other than OPTIONS gets status 200,
\* content-type text/html;charset=UTF-8 and the static document, without an
\* upstream call; every other request with a method other than OPTIONS is
\* proxied.
C9_RootOnly ==
    /\ (request.method # "OPTIONS" /\ request.url.pathname = <<"/">>) =>
          /\ fetchCalls = <<>>
          /\ pc \in Terminal =>
                /\ pc = "root"
                /\ response.status = 200
                /\ Joined(response.headers, "content-type") = <<"text/html;charset=UTF-8">>
                /\ Title \in Range(response.body.text)
    /\ (request.method # "OPTIONS" /\ request.url.pathname # <<"/">> /\ pc # "start") =>
          Len(fetchCalls) = 1

\* C10: the response is returned when the relay starts, so a failure of the
\* upstream body happens after the invocation has returned; the client then
\* has read a prefix of the upstream chunks and the outbound body is never
\* closed normally.
C10_ErrorNotPassedAsEnd ==
    /\ upState # "none" => pc = "streamed" /\ response.body.kind = "stream"
    /\ upState = "errored" =>
          /\ IsPrefix(clientRead, upstream.chunks)
          /\ outState # "closed"
          /\ clientEnd # "eof"

C10_Witness ==
    /\ upState = "errored"
    /\ clientEnd = "error"
    /\ Len(clientRead) >= 1
    /\ Len(clientRead) < Len(upstream.chunks)

====
